---- MODULE Spec2Model ----
(***************************************************************************)
(* Sequential Phragmen election (src/src/main.rs): setuplists builds the   *)
(* voter / candidate / edge graph, Assignment holds the numeric state, and *)
(* seq_phragmen runs numtoelect rounds followed by loadstoweights.         *)
(*                                                                         *)
(* f64 values are modelled as exact extended rationals <<n, d>>: d > 0 is  *)
(* the rational n/d in lowest terms, <<1,0>> is +inf, <<-1,0>> is -inf and *)
(* <<0,0>> is NaN.  Rounding error and the sign of zero are not modelled   *)
(* (budgets are drawn non-negative, so no negative zero divisor arises).   *)
(***************************************************************************)
EXTENDS Integers, Sequences, FiniteSets, TLC

(* ------------------------------ bounds -------------------------------- *)
\* seats requested (numtoelect) range over 0..MaxSeats; at most MaxCalls
\* mutator calls are made on a returned Assignment
MaxSeats == 4
MaxCalls == 2
\* the vote lists of Spec: up to two voters, budgets 0..2, up to two approvals
VoterCounts == {0, 1, 2}
Budgets == {0, 1, 2}
CanIds == {"X", "Y", "Z"}
VoterIds == {"A"}
ApprovalLens == {0, 1, 2}
\* the vote lists and the loads passed to setload in SpecMut
MutBudgets == {0, 1}
MutCanIds == {"X", "Y"}
MutApprovalLens == {1, 2}

(* ------------------------------ f64 ----------------------------------- *)
NaN == <<0, 0>>
INFINITY == <<1, 0>>
NegInf == <<-1, 0>>
Zero == <<0, 1>>
One == <<1, 1>>

Abs(x) == IF x < 0 THEN -x ELSE x

RECURSIVE GCD(_, _)
GCD(x, y) == IF y = 0 THEN x ELSE GCD(y, x % y)

Sign(x) == IF x > 0 THEN 1 ELSE IF x < 0 THEN -1 ELSE 0

\* the finite value n/d (d # 0) in lowest terms with positive denominator
Norm(n, d) ==
    LET g == GCD(Abs(n), Abs(d))
        s == Sign(d)
    IN  <<(s * n) \div g, (s * d) \div g>>

F(i) == <<i, 1>>
IsNaN(x) == x = NaN
IsInf(x) == x[2] = 0 /\ x[1] # 0
IsFinite(x) == x[2] > 0

FNeg(x) == <<-x[1], x[2]>>

FAdd(x, y) ==
    IF IsNaN(x) \/ IsNaN(y) THEN NaN
    ELSE IF IsInf(x) THEN (IF IsInf(y) /\ y # x THEN NaN ELSE x)
    ELSE IF IsInf(y) THEN y
    ELSE Norm(x[1] * y[2] + y[1] * x[2], x[2] * y[2])

FSub(x, y) == FAdd(x, FNeg(y))

FMul(x, y) ==
    IF IsNaN(x) \/ IsNaN(y) THEN NaN
    ELSE IF IsInf(x) \/ IsInf(y)
         THEN (IF x[1] = 0 \/ y[1] = 0 THEN NaN ELSE <<Sign(x[1]) * Sign(y[1]), 0>>)
    ELSE Norm(x[1] * y[1], x[2] * y[2])

\* a zero divisor is +0.0
FDiv(x, y) ==
    IF IsNaN(x) \/ IsNaN(y) THEN NaN
    ELSE IF IsInf(x) THEN (IF IsInf(y) THEN NaN
                           ELSE <<x[1] * (IF y[1] < 0 THEN -1 ELSE 1), 0>>)
    ELSE IF IsInf(y) THEN Zero
    ELSE IF y[1] = 0 THEN (IF x[1] = 0 THEN NaN ELSE <<Sign(x[1]), 0>>)
    ELSE Norm(x[1] * y[2], x[2] * y[1])

\* x < y on f64: false when either side is NaN
FLt(x, y) ==
    IF IsNaN(x) \/ IsNaN(y) THEN FALSE
    ELSE IF IsInf(x) THEN x = NegInf /\ y # NegInf
    ELSE IF IsInf(y) THEN y = INFINITY
    ELSE x[1] * y[2] < y[1] * x[2]

FGt(x, y) == FLt(y, x)

\* x == y on f64: false when either side is NaN
FEq(x, y) == ~IsNaN(x) /\ ~IsNaN(y) /\ x = y

FLe(x, y) == FLt(x, y) \/ FEq(x, y)

(* --------------------------- graph builder ---------------------------- *)
\* index (0-based) of canid in candidatearray, or -1: candidatedict.get
DictGet(candidatearray, canid) ==
    IF \E i \in 1..Len(candidatearray) : candidatearray[i].canid = canid
    THEN (CHOOSE i \in 1..Len(candidatearray) : candidatearray[i].canid = canid) - 1
    ELSE -1

Edge(voterid, canid, index, voterindex, canindex) ==
    [voterid |-> voterid, canid |-> canid, index |-> index,
     voterindex |-> voterindex, canindex |-> canindex]

Candidate(canid, index) == [canid |-> canid, index |-> index]

\* the inner loop of setuplists over one voter's edges
RECURSIVE SetupEdges(_, _, _, _)
SetupEdges(approved, voterid, voterindex, st) ==
    IF approved = <<>> THEN st
    ELSE LET canid == Head(approved)
             got == DictGet(st.candidatearray, canid)
             numcandidates == Len(st.candidatearray)
             canindex == IF got >= 0 THEN got ELSE numcandidates
             edge == Edge(voterid, canid, st.numedges, voterindex, canindex)
         IN  SetupEdges(Tail(approved), voterid, voterindex,
                 [edges |-> Append(st.edges, edge),
                  numedges |-> st.numedges + 1,
                  candidatearray |->
                      IF got >= 0 THEN st.candidatearray
                      ELSE Append(st.candidatearray, Candidate(canid, numcandidates))])

\* the outer loop of setuplists over the vote tuples
RECURSIVE SetupVoters(_, _)
SetupVoters(votes, st) ==
    IF votes = <<>> THEN st
    ELSE LET votetuple == Head(votes)
             numvoters == Len(st.voterlist)
             r == SetupEdges(votetuple.approved, votetuple.voterid, numvoters,
                     [edges |-> <<>>, numedges |-> st.numedges,
                      candidatearray |-> st.candidatearray])
             voter == [voterid |-> votetuple.voterid, budget |-> F(votetuple.budget),
                       edges |-> r.edges, index |-> numvoters]
         IN  SetupVoters(Tail(votes),
                 [voterlist |-> Append(st.voterlist, voter),
                  candidatearray |-> r.candidatearray,
                  numedges |-> r.numedges])

setuplists(votes) ==
    LET r == SetupVoters(votes, [voterlist |-> <<>>, candidatearray |-> <<>>,
                                 numedges |-> 0])
    IN  [voterlist |-> r.voterlist, candidates |-> r.candidatearray]

(* ----------------------------- Assignment ----------------------------- *)
RECURSIVE FlatEdges(_)
FlatEdges(voters) ==
    IF voters = <<>> THEN <<>> ELSE Head(voters).edges \o FlatEdges(Tail(voters))

\* canapproval[edge.canindex] += voter.budget over all voters and edges
RECURSIVE Approval(_, _, _)
Approval(voters, edges, c) ==
    IF edges = <<>> THEN Zero
    ELSE FAdd(IF Head(edges).canindex = c
                  THEN voters[Head(edges).voterindex + 1].budget ELSE Zero,
              Approval(voters, Tail(edges), c))

AssignmentNew(voters, cands) ==
    LET edges == FlatEdges(voters)
        numvoters == Len(voters)
        numcandidates == Len(cands)
        numedges == Len(edges)
    IN  [voterlist |-> voters,
         candidates |-> cands,
         edgelist |-> edges,
         voterload |-> [v \in 0..numvoters - 1 |-> Zero],
         edgeload |-> [e \in 0..numedges - 1 |-> Zero],
         edgeweight |-> [e \in 0..numedges - 1 |-> Zero],
         cansupport |-> [c \in 0..numcandidates - 1 |-> Zero],
         canelected |-> [c \in 0..numcandidates - 1 |-> FALSE],
         electedcandidates |-> {},
         canapproval |-> [c \in 0..numcandidates - 1 |-> Approval(voters, edges, c)],
         canscore |-> [c \in 0..numcandidates - 1 |-> Zero]]

setload(s, edge, load) ==
    LET oldload == s.edgeload[edge.index]
    IN  [s EXCEPT !.edgeload[edge.index] = load,
                  !.voterload[edge.voterindex] = FAdd(@, FSub(load, oldload))]

\* setweight that adds the new weight without removing the old one
setweightNoOld(s, edge, weight) ==
    [s EXCEPT !.edgeweight[edge.index] = weight,
              !.cansupport[edge.canindex] = FAdd(@, weight)]

setweight(s, edge, weight) ==
    LET oldweight == s.edgeweight[edge.index]
    IN  [s EXCEPT !.edgeweight[edge.index] = weight,
                  !.cansupport[edge.canindex] = FAdd(@, FSub(weight, oldweight))]

\* elect that sets the flag and forgets the set
electFlagOnly(s, candidate) ==
    [s EXCEPT !.canelected[candidate.index] = TRUE]

elect(s, candidate) ==
    [s EXCEPT !.canelected[candidate.index] = TRUE,
              !.electedcandidates = @ \cup {candidate.index}]

unelect(s, candidate) ==
    [s EXCEPT !.canelected[candidate.index] = FALSE,
              !.electedcandidates = @ \ {candidate.index}]

\* loadstoweights that leaves the budget out of the weight
RECURSIVE LoadsToWeightsNoBudget(_, _)
LoadsToWeightsNoBudget(s, k) ==
    IF k > Len(s.edgelist) THEN s
    ELSE LET edge == s.edgelist[k]
             voter_load == s.voterload[edge.voterindex]
             edge_load == s.edgeload[edge.index]
             weight == FDiv(edge_load, voter_load)
         IN  LoadsToWeightsNoBudget(
                 IF FGt(voter_load, Zero)
                     THEN [s EXCEPT !.edgeweight[edge.index] = weight,
                                    !.cansupport[edge.canindex] =
                                        FAdd(@, FSub(weight, s.edgeweight[edge.index]))]
                     ELSE s,
                 k + 1)

\* loadstoweights: edges k.. of the edge list, in voter order; voter_load is
\* read once per voter, and setweight does not change it
RECURSIVE LoadsToWeightsFrom(_, _)
LoadsToWeightsFrom(s, k) ==
    IF k > Len(s.edgelist) THEN s
    ELSE LET edge == s.edgelist[k]
             voter == s.voterlist[edge.voterindex + 1]
             voter_load == s.voterload[edge.voterindex]
             edge_load == s.edgeload[edge.index]
             weight == FDiv(FMul(voter.budget, edge_load), voter_load)
         IN  LoadsToWeightsFrom(
                 IF FGt(voter_load, Zero) THEN setweight(s, edge, weight) ELSE s,
                 k + 1)

loadstoweights(s) == LoadsToWeightsFrom(s, 1)

RECURSIVE WeightsToLoadsFrom(_, _)
WeightsToLoadsFrom(s, k) ==
    IF k > Len(s.edgelist) THEN s
    ELSE LET edge == s.edgelist[k]
             edge_weight == s.edgeweight[edge.index]
             can_support == s.cansupport[edge.canindex]
         IN  WeightsToLoadsFrom(
                 IF FGt(can_support, Zero)
                     THEN setload(s, edge, FDiv(edge_weight, can_support)) ELSE s,
                 k + 1)

weightstoloads(s) == WeightsToLoadsFrom(s, 1)

(* --------------------------- election round --------------------------- *)
\* score initialisation of the unelected candidates
InitScores(s) ==
    [s EXCEPT !.canscore = [c \in DOMAIN s.canscore |->
        IF ~s.canelected[c] THEN FDiv(One, s.canapproval[c]) ELSE s.canscore[c]]]

\* score accumulation that leaves the voter's budget out of the load term
RECURSIVE AccumulateNoBudget(_, _)
AccumulateNoBudget(s, k) ==
    IF k > Len(s.edgelist) THEN s
    ELSE LET edge == s.edgelist[k]
             term == FDiv(s.voterload[edge.voterindex], s.canapproval[edge.canindex])
         IN  AccumulateNoBudget(
                 IF ~s.canelected[edge.canindex]
                     THEN [s EXCEPT !.canscore[edge.canindex] = FAdd(@, term)]
                     ELSE s,
                 k + 1)

\* score accumulation over voters and their edges
RECURSIVE AccumulateFrom(_, _)
AccumulateFrom(s, k) ==
    IF k > Len(s.edgelist) THEN s
    ELSE LET edge == s.edgelist[k]
             nom == s.voterlist[edge.voterindex + 1]
             term == FDiv(FMul(nom.budget, s.voterload[nom.index]),
                          s.canapproval[edge.canindex])
         IN  AccumulateFrom(
                 IF ~s.canelected[edge.canindex]
                     THEN [s EXCEPT !.canscore[edge.canindex] = FAdd(@, term)]
                     ELSE s,
                 k + 1)

\* selection: linear scan for the first strictly smaller score
RECURSIVE SelectFrom(_, _, _)
SelectFrom(s, canindex, best) ==
    IF canindex >= Len(s.candidates) THEN best
    ELSE SelectFrom(s, canindex + 1,
             IF ~s.canelected[canindex] /\ FLt(s.canscore[canindex], best.bestscore)
                 THEN [bestcandidate |-> canindex, bestscore |-> s.canscore[canindex]]
                 ELSE best)

Select(s) == SelectFrom(s, 0, [bestcandidate |-> 0, bestscore |-> INFINITY])

\* load redistribution that puts the whole score on the edge
RECURSIVE RedistributeWholeScore(_, _, _)
RedistributeWholeScore(s, k, best) ==
    IF k > Len(s.edgelist) THEN s
    ELSE RedistributeWholeScore(
             IF s.edgelist[k].canindex = best
                 THEN [s EXCEPT !.edgeload[s.edgelist[k].index] = s.canscore[best],
                                !.voterload[s.edgelist[k].voterindex] =
                                    FAdd(@, FSub(s.canscore[best],
                                                 s.edgeload[s.edgelist[k].index]))]
                 ELSE s,
             k + 1, best)

\* load redistribution onto the winner's edges
RECURSIVE RedistributeFrom(_, _, _)
RedistributeFrom(s, k, best) ==
    IF k > Len(s.edgelist) THEN s
    ELSE LET edge == s.edgelist[k]
             load == FSub(s.canscore[best], s.voterload[edge.voterindex])
         IN  RedistributeFrom(
                 IF edge.canindex = best THEN setload(s, edge, load) ELSE s,
                 k + 1, best)

\* one iteration of the loop body after the bounds check of candidates[best]
RoundBody(s, best) ==
    LET electedcandidate == s.candidates[best + 1]
        s1 == [s EXCEPT !.canelected[best] = TRUE]
        s2 == elect(s1, electedcandidate)
    IN  RedistributeFrom(s2, 1, best)

Scored(s) == AccumulateFrom(InitScores(s), 1)

(* ------------------------------- state -------------------------------- *)
\* votelist, numtoelect: the arguments of seq_phragmen; a: its Assignment;
\* round: the loop counter; bestcandidate, bestscore: the locals of the last
\* iteration; pc: "loop", "returned" or "panicked" (index out of bounds);
\* lastop: the last operation applied to a; calls: mutator calls made by the
\* caller after the return; prev: a, bestscore and lastop before the last
\* operation (history, read by the properties only)
VARIABLES votelist, numtoelect, a, round, bestcandidate, bestscore, pc, lastop,
          calls, prev

vars == <<votelist, numtoelect, a, round, bestcandidate, bestscore, pc, lastop,
          calls, prev>>

SeqsUpTo(S, lens) == UNION {[1..n -> S] : n \in lens}

VoteTuples(ids, budgets, cans, lens) ==
    [voterid : ids, budget : budgets, approved : SeqsUpTo(cans, lens)]

\* the vote list of main
MainVotelist ==
    << [voterid |-> "A", budget |-> 10, approved |-> <<"X", "Y">>],
       [voterid |-> "B", budget |-> 20, approved |-> <<"X", "Z">>],
       [voterid |-> "C", budget |-> 30, approved |-> <<"Y", "Z">>],
       [voterid |-> "C", budget |-> 50, approved |-> <<"Z">>] >>

MainNumToElect == 2

Votelists == SeqsUpTo(VoteTuples(VoterIds, Budgets, CanIds, ApprovalLens), VoterCounts)

MutVotelists ==
    SeqsUpTo(VoteTuples(VoterIds, MutBudgets, MutCanIds, MutApprovalLens), VoterCounts)

MutLoads == {Zero, One, <<1, 2>>}

Snapshot == [a |-> a, bestscore |-> bestscore, lastop |-> lastop]

\* entry of seq_phragmen: setuplists and Assignment::new, before the loop
Start(votes, n) ==
    LET lists == setuplists(votes)
        s == AssignmentNew(lists.voterlist, lists.candidates)
    IN  /\ votelist = votes
        /\ numtoelect = n
        /\ a = s
        /\ round = 0
        /\ bestcandidate = 0
        /\ bestscore = INFINITY
        /\ pc = "loop"
        /\ lastop = "new"
        /\ calls = 0
        /\ prev = [a |-> s, bestscore |-> INFINITY, lastop |-> "new"]

Init ==
    \/ \E votes \in Votelists, n \in 0..MaxSeats : Start(votes, n)
    \/ Start(MainVotelist, MainNumToElect)

InitMut ==
    \E votes \in MutVotelists, n \in 0..MaxSeats : Start(votes, n)

\* one iteration of `for _ in 0..numtoelect`; candidates[bestcandidate] panics
\* when there is no candidate at all
Round ==
    /\ pc = "loop"
    /\ round < numtoelect
    /\ LET s == Scored(a)
           best == Select(s)
       IN  /\ bestcandidate' = best.bestcandidate
           /\ bestscore' = best.bestscore
           /\ IF best.bestcandidate >= Len(a.candidates)
                 THEN /\ a' = s
                      /\ pc' = "panicked"
                      /\ round' = round
                 ELSE /\ a' = RoundBody(s, best.bestcandidate)
                      /\ pc' = "loop"
                      /\ round' = round + 1
    /\ lastop' = "round"
    /\ prev' = Snapshot
    /\ UNCHANGED <<votelist, numtoelect, calls>>

\* loop exit: a.loadstoweights() and return
Finish ==
    /\ pc = "loop"
    /\ round = numtoelect
    /\ a' = loadstoweights(a)
    /\ pc' = "returned"
    /\ lastop' = "loadstoweights"
    /\ prev' = Snapshot
    /\ UNCHANGED <<votelist, numtoelect, round, bestcandidate, bestscore, calls>>

\* mutator calls on the returned Assignment
SetLoadCall ==
    /\ pc = "returned"
    /\ calls < MaxCalls
    /\ \E k \in 1..Len(a.edgelist), load \in MutLoads :
           a' = setload(a, a.edgelist[k], load)
    /\ lastop' = "setload"
    /\ calls' = calls + 1
    /\ prev' = Snapshot
    /\ UNCHANGED <<votelist, numtoelect, round, bestcandidate, bestscore, pc>>

WeightsToLoadsCall ==
    /\ pc = "returned"
    /\ calls < MaxCalls
    /\ a' = weightstoloads(a)
    /\ lastop' = "weightstoloads"
    /\ calls' = calls + 1
    /\ prev' = Snapshot
    /\ UNCHANGED <<votelist, numtoelect, round, bestcandidate, bestscore, pc>>

LoadsToWeightsCall ==
    /\ pc = "returned"
    /\ calls < MaxCalls
    /\ a' = loadstoweights(a)
    /\ lastop' = "loadstoweights"
    /\ calls' = calls + 1
    /\ prev' = Snapshot
    /\ UNCHANGED <<votelist, numtoelect, round, bestcandidate, bestscore, pc>>

Next == Round \/ Finish

NextMut == Round \/ Finish \/ SetLoadCall \/ WeightsToLoadsCall \/ LoadsToWeightsCall

\* seq_phragmen alone
Spec == Init /\ [][Next]_vars

\* seq_phragmen followed by mutator calls of the caller
SpecMut == InitMut /\ [][NextMut]_vars

(* ----------------------------- properties ----------------------------- *)
NumCands == Len(a.candidates)
Cands == 0..NumCands - 1
NumVoters == Len(a.voterlist)
Voters == 0..NumVoters - 1
EdgeIxs == 1..Len(a.edgelist)

\* sum of s[field][e] over the edges e owned by voter v, from position k on
RECURSIVE VoterSum(_, _, _, _)
VoterSum(s, field, v, k) ==
    IF k > Len(s.edgelist) THEN Zero
    ELSE FAdd(IF s.edgelist[k].voterindex = v
                  THEN s[field][s.edgelist[k].index] ELSE Zero,
              VoterSum(s, field, v, k + 1))

\* sum of edgeweight over the edges targeting candidate c, from position k on
RECURSIVE CanSum(_, _, _)
CanSum(s, c, k) ==
    IF k > Len(s.edgelist) THEN Zero
    ELSE FAdd(IF s.edgelist[k].canindex = c
                  THEN s.edgeweight[s.edgelist[k].index] ELSE Zero,
              CanSum(s, c, k + 1))

Budget(v) == a.voterlist[v + 1].budget
Approves(v, c) == \E k \in EdgeIxs :
    a.edgelist[k].voterindex = v /\ a.edgelist[k].canindex = c

PositiveBudgets == \A i \in 1..Len(votelist) : votelist[i].budget > 0
ValidCall == PositiveBudgets /\ numtoelect <= NumCands
\* a loop iteration has just completed (it did not panic)
RoundDone == lastop = "round" /\ pc = "loop"
Untouched ==
    /\ a.electedcandidates = {}
    /\ \A c \in Cands : ~a.canelected[c]
    /\ \A v \in Voters : a.voterload[v] = Zero
    /\ \A k \in EdgeIxs : a.edgeload[k - 1] = Zero /\ a.edgeweight[k - 1] = Zero
    /\ \A c \in Cands : a.cansupport[c] = Zero

\* the distinct candidate ids of the vote list in order of first appearance
RECURSIVE Flatten(_)
Flatten(votes) ==
    IF votes = <<>> THEN <<>> ELSE Head(votes).approved \o Flatten(Tail(votes))
FirstSeenOrder ==
    LET ids == Flatten(votelist)
        first(x) == CHOOSE i \in 1..Len(ids) : ids[i] = x /\ \A j \in 1..(i - 1) : ids[j] # x
    IN  /\ NumCands = Cardinality({ids[i] : i \in 1..Len(ids)})
        /\ \A c \in Cands : a.candidates[c + 1].index = c
        /\ \A c \in Cands : \E i \in 1..Len(ids) : ids[i] = a.candidates[c + 1].canid
        /\ \A c, d \in Cands :
               c < d => first(a.candidates[c + 1].canid) < first(a.candidates[d + 1].canid)
        /\ \A k \in EdgeIxs :
               a.candidates[a.edgelist[k].canindex + 1].canid = a.edgelist[k].canid

\* C1: a call with numtoelect greater than the number of distinct candidates
\* is rejected before any mutation: it runs no round, elects nobody, changes
\* no load, does not index out of range and does not return an Assignment.
C1_InvalidSeatCountRejected ==
    numtoelect > NumCands =>
        /\ round = 0
        /\ Untouched
        /\ pc # "panicked"
        /\ pc # "returned"

\* C2: the winner of a round never has canapproval 0; with only zero-approval
\* candidates left for a required seat the call fails instead of electing.
C2_ZeroApprovalNeverWins ==
    RoundDone => a.canapproval[bestcandidate] # Zero

\* C3: with positive budgets and numtoelect <= number of candidates, every
\* round elects a candidate unelected at its start, elected flags and set
\* membership never revert, canelected[c] <=> c \in electedcandidates, and
\* the call returns exactly numtoelect elected candidates (none, with all
\* loads and weights zero, when numtoelect = 0).
C3_ElectionMonotone ==
    ValidCall =>
        /\ pc # "panicked"
        /\ a.electedcandidates = {c \in Cands : a.canelected[c]}
        /\ Cardinality(a.electedcandidates) = round
        /\ RoundDone =>
               /\ ~prev.a.canelected[bestcandidate]
               /\ a.canelected[bestcandidate]
        /\ \A c \in Cands : prev.a.canelected[c] => a.canelected[c]
        /\ prev.a.electedcandidates \subseteq a.electedcandidates
        /\ pc = "returned" => Cardinality(a.electedcandidates) = numtoelect
        /\ (pc = "returned" /\ numtoelect = 0) => Untouched

C3_Witness ==
    /\ ValidCall
    /\ pc = "returned"
    /\ numtoelect = NumCands
    /\ NumCands = 3
    /\ a.electedcandidates = {0, 1, 2}

\* C4: for every voter, voterload[v] equals the sum of edgeload over the
\* voter's edges, in every state reached by the mutators.
C4_LoadAggregate ==
    \A v \in Voters : a.voterload[v] = VoterSum(a, "edgeload", v, 1)

\* C4 where no NaN has entered the loads: the aggregate holds.
C4_OnNumericLoads ==
    (\A v \in Voters : ~IsNaN(a.voterload[v])) => C4_LoadAggregate

\* C5 (as claimed): after the final loadstoweights of seq_phragmen, each
\* voter's edge weights sum to voterload[v], and a voter with zero load has
\* zero weight on every edge.  Stated for valid calls.
C5_WeightsSumToLoad ==
    (ValidCall /\ pc = "returned") =>
        \A v \in Voters :
            /\ VoterSum(a, "edgeweight", v, 1) = a.voterload[v]
            /\ a.voterload[v] = Zero =>
                   \A k \in EdgeIxs : a.edgelist[k].voterindex = v => a.edgeweight[k - 1] = Zero

\* C5 (amended): after the final loadstoweights of seq_phragmen, the edge
\* weights of every voter with positive load sum to the voter's budget, and
\* a voter whose load is not positive has zero weight on every edge.
C5_WeightsSumToBudget ==
    pc = "returned" =>
        \A v \in Voters :
            /\ FGt(a.voterload[v], Zero) => VoterSum(a, "edgeweight", v, 1) = Budget(v)
            /\ ~FGt(a.voterload[v], Zero) =>
                   \A k \in EdgeIxs : a.edgelist[k].voterindex = v => a.edgeweight[k - 1] = Zero

C5_Witness ==
    /\ pc = "returned"
    /\ \E v, w \in Voters :
           /\ FGt(a.voterload[v], Zero)
           /\ Budget(v) # a.voterload[v]
           /\ Cardinality({k \in EdgeIxs : a.edgelist[k].voterindex = v
                                           /\ a.edgeweight[k - 1] # Zero}) = 2
           /\ a.voterload[w] = Zero
           /\ \E k \in EdgeIxs : a.edgelist[k].voterindex = w

\* C6: after loadstoweights every edge of a voter with positive load has
\* weight budget * edgeload / voterload, these weights sum to the budget,
\* cansupport[c] is the sum of the weights of the edges targeting c, and a
\* further loadstoweights changes no edgeweight and no cansupport.
C6_LoadsToWeights ==
    lastop = "loadstoweights" =>
        /\ \A v \in Voters : FGt(a.voterload[v], Zero) =>
               /\ \A k \in EdgeIxs : a.edgelist[k].voterindex = v =>
                      a.edgeweight[k - 1] =
                          FDiv(FMul(Budget(v), a.edgeload[k - 1]), a.voterload[v])
               /\ (\E k \in EdgeIxs : a.edgelist[k].voterindex = v) =>
                      VoterSum(a, "edgeweight", v, 1) = Budget(v)
        /\ \A c \in Cands : a.cansupport[c] = CanSum(a, c, 1)
        /\ prev.lastop = "loadstoweights" =>
               /\ a.edgeweight = prev.a.edgeweight
               /\ a.cansupport = prev.a.cansupport

C6_Witness ==
    /\ lastop = "loadstoweights"
    /\ prev.lastop = "loadstoweights"
    /\ \E c \in Cands : FGt(a.cansupport[c], One)
    /\ \E v \in Voters :
           Cardinality({k \in EdgeIxs : a.edgelist[k].voterindex = v
                                        /\ a.edgeweight[k - 1] # Zero}) = 2

\* C7: the winner of every round is an unelected candidate of minimal score
\* among the unelected, the lowest-indexed one on ties, and candidate indices
\* follow the order of first appearance in the ballots.
C7_SelectionTieBreak ==
    /\ FirstSeenOrder
    /\ RoundDone =>
           /\ ~prev.a.canelected[bestcandidate]
           /\ \A c \in Cands : ~prev.a.canelected[c] =>
                  /\ ~FLt(a.canscore[c], a.canscore[bestcandidate])
                  /\ (c < bestcandidate => a.canscore[c] # a.canscore[bestcandidate])

\* C7 on valid calls (positive budgets, numtoelect <= candidates): holds.
C7_OnValidCalls == ValidCall => C7_SelectionTieBreak

\* C8: the vote list of main with numtoelect = 2: the two voters named C are
\* distinct, X=0, Y=1, Z=2, approvals 30, 40, 100, round 1 elects Z with score
\* 1/100, round 2 scores X at 1.2/30 and Y at 1.3/40 from loads 1/100 on B
\* and both C voters, and {Y, Z} is elected.
C8_MainScenario ==
    (votelist = MainVotelist /\ numtoelect = MainNumToElect) =>
        /\ NumVoters = 4
        /\ a.voterlist[3].voterid = "C" /\ a.voterlist[3].index = 2
        /\ a.voterlist[4].voterid = "C" /\ a.voterlist[4].index = 3
        /\ a.candidates = <<Candidate("X", 0), Candidate("Y", 1), Candidate("Z", 2)>>
        /\ a.canapproval = (0 :> F(30)) @@ (1 :> F(40)) @@ (2 :> F(100))
        /\ (RoundDone /\ round = 1) =>
               /\ bestcandidate = 2
               /\ bestscore = <<1, 100>>
               /\ a.voterload = (0 :> Zero) @@ (1 :> <<1, 100>>) @@ (2 :> <<1, 100>>)
                                    @@ (3 :> <<1, 100>>)
        /\ (RoundDone /\ round = 2) =>
               /\ a.canscore[0] = FDiv(<<12, 10>>, F(30))
               /\ a.canscore[1] = FDiv(<<13, 10>>, F(40))
               /\ bestcandidate = 1
        /\ pc = "returned" => a.electedcandidates = {1, 2}

C8_Witness ==
    /\ votelist = MainVotelist
    /\ pc = "returned"
    /\ round = 2

\* C9: at the end of every round each voter with an edge to the winner has
\* voterload equal to the winner's score, every other voter's voterload is
\* unchanged, and no edge to another candidate has its edgeload changed.
C9_Redistribution ==
    RoundDone =>
        /\ \A v \in Voters :
               IF Approves(v, bestcandidate)
                   THEN a.voterload[v] = a.canscore[bestcandidate]
                   ELSE a.voterload[v] = prev.a.voterload[v]
        /\ \A k \in EdgeIxs : a.edgelist[k].canindex # bestcandidate =>
               a.edgeload[k - 1] = prev.a.edgeload[k - 1]

\* C9 on valid calls (positive budgets, numtoelect <= candidates): holds.
C9_OnValidCalls == ValidCall => C9_Redistribution

\* C10: with positive budgets and numtoelect <= number of candidates, the
\* winning score of a round is >= the previous winning score and >= every
\* voter's load at that round, every edgeload is >= 0, no voterload
\* decreases, and only edges to elected candidates carry nonzero load.
C10_LoadsMonotone ==
    ValidCall =>
        /\ RoundDone =>
               /\ bestscore = a.canscore[bestcandidate]
               /\ prev.lastop = "round" => FLe(prev.bestscore, bestscore)
               /\ \A v \in Voters : FLe(prev.a.voterload[v], bestscore)
        /\ \A k \in EdgeIxs :
               /\ FLe(Zero, a.edgeload[k - 1])
               /\ a.edgeload[k - 1] # Zero => a.canelected[a.edgelist[k].canindex]
        /\ \A v \in Voters : FLe(prev.a.voterload[v], a.voterload[v])

C10_Witness ==
    /\ ValidCall
    /\ RoundDone
    /\ round = 3
    /\ FLt(prev.bestscore, bestscore)
    /\ \E v \in Voters : FLt(Zero, prev.a.voterload[v]) /\ FLt(prev.a.voterload[v], a.voterload[v])

====
